---------------------------- MODULE Spec2Model ----------------------------
(***************************************************************************)
(* Viper: a three-stage compiler (Lexer, Parser, CodeGenerator) from a     *)
(* small scripting language to x86-64 NASM text, src/src/main.rs.          *)
(*                                                                         *)
(* The model has the compiler (lexer, parser, variable collection, code    *)
(* generation, main) and the 64-bit register machine that runs the emitted *)
(* instructions.  Source text is a sequence of one-character strings; a    *)
(* 64-bit register is a sequence of 8 bytes, least significant first, so   *)
(* that arithmetic is exactly arithmetic modulo 2^64.                      *)
(***************************************************************************)
EXTENDS Integers, Sequences, FiniteSets, TLC

(***************************************************************************)
(* 64-bit words                                                            *)
(***************************************************************************)

\* A quadword (resq 1, the size of rax/rbx/rcx/rdx) has 8 bytes.
WordBytes ==
    8

RECURSIVE NatToBytes(_, _)
\* The k low bytes of the natural number n, least significant first.
NatToBytes(n, k) ==
    IF k = 0 THEN <<>> ELSE <<n % 256>> \o NatToBytes(n \div 256, k - 1)

\* The word holding the natural number n.
W(n) ==
    NatToBytes(n, WordBytes)

RECURSIVE AddBytes(_, _, _)
\* a + b + c on byte sequences of one length, the carry out dropped.
AddBytes(a, b, c) ==
    IF a = <<>> THEN <<>>
    ELSE LET s == Head(a) + Head(b) + c
         IN  <<s % 256>> \o AddBytes(Tail(a), Tail(b), s \div 256)

NotBytes(a) ==
    [i \in DOMAIN a |-> 255 - a[i]]

\* add rax, rbx
WAdd(a, b) ==
    AddBytes(a, b, 0)

\* sub rax, rbx
WSub(a, b) ==
    AddBytes(a, NotBytes(b), 1)

RECURSIVE LessBytes(_, _)
\* a < b, unsigned, on byte sequences of one length.
LessBytes(a, b) ==
    IF a = <<>> THEN FALSE
    ELSE LET n == Len(a)
         IN  IF a[n] # b[n] THEN a[n] < b[n]
             ELSE LessBytes(SubSeq(a, 1, n - 1), SubSeq(b, 1, n - 1))

RECURSIVE MulCol(_, _, _, _)
\* The sum of a[i] * b[k + 1 - i] for i in 1..j.
MulCol(a, b, k, j) ==
    IF j = 0 THEN 0 ELSE a[j] * b[k + 1 - j] + MulCol(a, b, k, j - 1)

RECURSIVE MulFrom(_, _, _, _)
MulFrom(a, b, k, carry) ==
    IF k > Len(a) THEN <<>>
    ELSE LET s == MulCol(a, b, k, k) + carry
         IN  <<s % 256>> \o MulFrom(a, b, k + 1, s \div 256)

\* imul rax, rbx: the low 64 bits of the product.
WMul(a, b) ==
    MulFrom(a, b, 1, 0)

Pow2(i) ==
    CASE i = 0 -> 1 [] i = 1 -> 2 [] i = 2 -> 4 [] i = 3 -> 8
      [] i = 4 -> 16 [] i = 5 -> 32 [] i = 6 -> 64 [] OTHER -> 128

ZeroBytes(k) ==
    [i \in 1..k |-> 0]

RECURSIVE DivBits(_, _, _, _, _)
\* Binary long division, one dividend byte x: bits j down to 0 are shifted
\* into the remainder r (r < b on entry): <<quotient byte, remainder>>.
DivBits(r, b, x, j, q) ==
    IF j < 0 THEN <<q, r>>
    ELSE LET r2 == AddBytes(r, r, (x \div Pow2(j)) % 2)
             ge == ~LessBytes(r2, b)
             r3 == IF ge THEN AddBytes(r2, NotBytes(b), 1) ELSE r2
         IN  DivBits(r3, b, x, j - 1, 2 * q + (IF ge THEN 1 ELSE 0))

RECURSIVE DivFrom(_, _, _, _)
\* Bytes i down to 1 of a divided by b, r the remainder of the bytes above:
\* <<quotient bytes, remainder>>.  (Testing the remainder against b, which
\* it is always below, has TLC evaluate it before the next byte is taken.)
DivFrom(a, b, i, r) ==
    IF i = 0 \/ ~LessBytes(r, b) THEN <<<< >>, r>>
    ELSE LET s    == DivBits(r, b, a[i], 7, 0)
             rest == DivFrom(a, b, i - 1, s[2])
         IN  <<rest[1] \o <<s[1]>>, rest[2]>>

\* Unsigned division of the byte sequence a by the word b, b nonzero:
\* <<quotient (as long as a), remainder (a word)>>.  The remainder is kept
\* one byte longer than b while dividing, as 2 * r + 1 may not fit a word.
DivBytes(a, b) ==
    LET qr == DivFrom(a, b \o <<0>>, Len(a), ZeroBytes(Len(b) + 1))
    IN  <<qr[1], SubSeq(qr[2], 1, Len(b))>>

(***************************************************************************)
(* Characters and tokens                                                   *)
(***************************************************************************)

\* char::is_alphabetic, on the letters the model's inputs are written in.
Letters ==
    {"a", "b", "c", "d", "e", "f", "g", "h", "i", "j", "k", "l", "m",
     "n", "o", "p", "q", "r", "s", "t", "u", "v", "w", "x", "y", "z"}

DigitChars ==
    <<"0", "1", "2", "3", "4", "5", "6", "7", "8", "9">>

\* char::is_numeric, on the ASCII digits.
Digits ==
    {DigitChars[i] : i \in DOMAIN DigitChars}

\* char::is_whitespace.
Whitespace ==
    {" ", "\n", "\t"}

is_alphabetic(c) == c \in Letters
is_numeric(c) == c \in Digits
is_alphanumeric(c) == c \in Letters \cup Digits
is_whitespace(c) == c \in Whitespace

DigitValue(c) ==
    CHOOSE d \in 0..9 : DigitChars[d + 1] = c

\* Option<char>::None.
None ==
    "None"

\* The value of Token::Number: the f64 a numeral parses to, held as the
\* digits of its integral part without leading zeros and its fractional
\* digits without trailing zeros.  This is the f64 exactly for numerals of
\* up to 15 digits, which is all the model reads.
F64(int, frac) ==
    [int |-> int, frac |-> frac]

\* enum Token.  Every token has the three fields, so that tokens compare.
Tok(type) ==
    [type |-> type, name |-> "", value |-> F64(<<>>, <<>>)]

IdentifierTok(name) ==
    [type |-> "Identifier", name |-> name, value |-> F64(<<>>, <<>>)]

NumberTok(value) ==
    [type |-> "Number", name |-> "", value |-> value]

\* The token a single punctuation character maps to.
PunctuationType ==
    [c \in {"+", "-", "*", "/", "=", "(", ")", "{", "}"} |->
        CASE c = "+" -> "Plus"   [] c = "-" -> "Minus"
          [] c = "*" -> "Multiply" [] c = "/" -> "Divide"
          [] c = "=" -> "Assign" [] c = "(" -> "LParen"
          [] c = ")" -> "RParen" [] c = "{" -> "LBrace"
          [] OTHER   -> "RBrace"]

(***************************************************************************)
(* Lexer                                                                   *)
(***************************************************************************)

\* Lexer::peek_char: the character at the cursor, not consumed.
peek_char(inp, pos) ==
    IF pos < Len(inp) THEN inp[pos + 1] ELSE None

\* next_char without its bound check.
next_char_unchecked(inp, pos) ==
    pos + 1

\* Lexer::next_char: the cursor after the call (the character returned is
\* peek_char before it).
next_char(inp, pos) ==
    IF pos < Len(inp) THEN pos + 1 ELSE pos

RECURSIVE skip_whitespace(_, _)
\* Lexer::skip_whitespace: the cursor after the whitespace run.
skip_whitespace(inp, pos) ==
    IF peek_char(inp, pos) # None /\ is_whitespace(peek_char(inp, pos))
    THEN skip_whitespace(inp, next_char(inp, pos))
    ELSE pos

RECURSIVE ScanWhile(_, _, _)
\* The `while let Some(next) = self.peek_char()` loops of next_token: the
\* cursor after the longest run of characters of the set `accept`.
ScanWhile(inp, pos, accept) ==
    IF peek_char(inp, pos) # None /\ peek_char(inp, pos) \in accept
    THEN ScanWhile(inp, next_char(inp, pos), accept)
    ELSE pos

RECURSIVE Concat(_)
\* String::push over a run of characters.
Concat(cs) ==
    IF cs = <<>> THEN "" ELSE Head(cs) \o Concat(Tail(cs))

RECURSIVE StripLeadingZeros(_)
StripLeadingZeros(cs) ==
    IF cs # <<>> /\ Head(cs) = "0" THEN StripLeadingZeros(Tail(cs)) ELSE cs

RECURSIVE StripZeros(_)
StripZeros(cs) ==
    IF cs # <<>> /\ cs[Len(cs)] = "0"
    THEN StripZeros(SubSeq(cs, 1, Len(cs) - 1))
    ELSE cs

DotsOf(cs) ==
    {i \in DOMAIN cs : cs[i] = "."}

\* str::parse::<f64> on a numeral of digits and dots that starts with a
\* digit: Err exactly when it holds two dots or more.
ParseF64Ok(cs) ==
    Cardinality(DotsOf(cs)) <= 1

ParseF64(cs) ==
    IF DotsOf(cs) = {} THEN F64(StripLeadingZeros(cs), <<>>)
    ELSE LET d == CHOOSE i \in DotsOf(cs) : TRUE
         IN  F64(StripLeadingZeros(SubSeq(cs, 1, d - 1)),
                 StripZeros(SubSeq(cs, d + 1, Len(cs))))

\* The keyword match of next_token.
KeywordOrIdentifier(identifier) ==
    CASE identifier = "print" -> Tok("Print")
      [] identifier = "if"    -> Tok("If")
      [] identifier = "else"  -> Tok("Else")
      [] OTHER                -> IdentifierTok(identifier)

\* In place of the token of a call that panics and returns none.
NoToken ==
    Tok("None")

\* What a call of next_token gives: the token, the cursor after the call
\* and, when the call panics, the panic ("" otherwise).
Lexed(token, pos, panic) ==
    [token |-> token, position |-> pos, panic |-> panic]

\* Lexer::next_token.
next_token(inp, pos0) ==
    LET start == skip_whitespace(inp, pos0)
        c     == peek_char(inp, start)
        pos   == next_char(inp, start)
    IN  CASE c = None -> Lexed(Tok("EOF"), pos, "")
          [] c # None /\ is_alphabetic(c) ->
                LET stop == ScanWhile(inp, pos, Letters \cup Digits)
                IN  Lexed(KeywordOrIdentifier(
                              Concat(SubSeq(inp, start + 1, stop))), stop, "")
          [] c # None /\ is_numeric(c) ->
                LET stop   == ScanWhile(inp, pos, Digits \cup {"."})
                    number == SubSeq(inp, start + 1, stop)
                IN  IF ParseF64Ok(number)
                    THEN Lexed(NumberTok(ParseF64(number)), stop, "")
                    ELSE Lexed(NoToken, stop, "MalformedNumber")
          [] c \in DOMAIN PunctuationType ->
                Lexed(Tok(PunctuationType[c]), pos, "")
          [] OTHER -> Lexed(NoToken, pos, "UnexpectedCharacter")

(***************************************************************************)
(* AST                                                                     *)
(***************************************************************************)

NumberNode(value) ==
    [kind |-> "Number", value |-> value]

VariableNode(name) ==
    [kind |-> "Variable", name |-> name]

BinaryOp(left, operator, right) ==
    [kind |-> "BinaryOp", left |-> left, operator |-> operator, right |-> right]

Assignment(variable, value) ==
    [kind |-> "Assignment", variable |-> variable, value |-> value]

PrintNode(expression) ==
    [kind |-> "Print", expression |-> expression]

IfNode(condition, then_branch, else_branch) ==
    [kind |-> "If", condition |-> condition,
     then_branch |-> then_branch, else_branch |-> else_branch]

\* In place of the node of a parse that panicked.
NoNode ==
    [kind |-> "None"]

(***************************************************************************)
(* Parser.  The parser's state is the lexer's cursor, the current token    *)
(* and the panic that ended the parse ("" while none has).  A panic        *)
(* unwinds: every procedure returns at once when its state holds one.      *)
(***************************************************************************)

ParserState(pos, token, panic) ==
    [position |-> pos, current_token |-> token, panic |-> panic]

\* self.current_token = self.lexer.next_token()
Advance(inp, p) ==
    LET r == next_token(inp, p.position)
    IN  ParserState(r.position,
                    IF r.panic = "" THEN r.token ELSE p.current_token,
                    r.panic)

\* Parser::new.
Parser_new(inp) ==
    Advance(inp, ParserState(0, NoToken, ""))

\* Parser::eat.
eat(inp, p, token) ==
    IF p.panic # "" THEN p
    ELSE IF p.current_token = token THEN Advance(inp, p)
    ELSE [p EXCEPT !.panic = "UnexpectedToken"]

Parsed(node, p) ==
    [node |-> node, p |-> p]

\* Parser::parse_term.
parse_term(inp, p) ==
    IF p.panic # "" THEN Parsed(NoNode, p)
    ELSE CASE p.current_token.type = "Number" ->
                Parsed(NumberNode(p.current_token.value),
                       eat(inp, p, NumberTok(p.current_token.value)))
           [] p.current_token.type = "Identifier" ->
                Parsed(VariableNode(p.current_token.name),
                       eat(inp, p, IdentifierTok(p.current_token.name)))
           [] OTHER ->
                Parsed(NoNode, [p EXCEPT !.panic = "UnexpectedTokenInTerm"])

\* The operator string parse_expression gives each operator token.
OperatorOf ==
    [t \in {"Plus", "Minus", "Multiply", "Divide"} |->
        CASE t = "Plus" -> "+" [] t = "Minus" -> "-"
          [] t = "Multiply" -> "*" [] OTHER -> "/"]

RECURSIVE ExpressionLoop(_, _, _)

\* The operands of the new node exchanged.
ExpressionStep_Exchanged(inp, left, operator, right) ==
    ExpressionLoop(inp, BinaryOp(right.node, operator, left), right.p)

\* left = ASTNode::BinaryOp { left, operator, right }, and the loop again.
ExpressionStep(inp, left, operator, right) ==
    ExpressionLoop(inp, BinaryOp(left, operator, right.node), right.p)

\* The while loop of parse_expression, `left` the tree built so far.
ExpressionLoop(inp, left, p) ==
    IF p.panic = "" /\ p.current_token.type \in DOMAIN OperatorOf
    THEN ExpressionStep(inp, left, OperatorOf[p.current_token.type],
             parse_term(inp, eat(inp, p, Tok(p.current_token.type))))
    ELSE Parsed(left, p)

ExpressionFrom(inp, left) ==
    ExpressionLoop(inp, left.node, left.p)

\* Parser::parse_expression.
parse_expression(inp, p) ==
    ExpressionFrom(inp, parse_term(inp, p))

AssignmentOf(name, value) ==
    Parsed(Assignment(name, value.node), value.p)

\* Parser::parse_assignment.
parse_assignment(inp, p) ==
    IF p.panic # "" THEN Parsed(NoNode, p)
    ELSE IF p.current_token.type = "Identifier"
    THEN AssignmentOf(p.current_token.name,
             parse_expression(inp,
                 eat(inp, eat(inp, p, IdentifierTok(p.current_token.name)),
                     Tok("Assign"))))
    ELSE Parsed(NoNode, [p EXCEPT !.panic = "ExpectedIdentifier"])

ComparisonOf(left, right) ==
    Parsed(BinaryOp(left, "==", right.node), right.p)

\* parse_comparison after the first `=`, p the parser after it.
ComparisonRight(inp, left, p) ==
    IF p.panic # "" THEN Parsed(NoNode, p)
    ELSE IF p.current_token = Tok("Assign")
    THEN ComparisonOf(left,
             parse_expression(inp, eat(inp, p, Tok("Assign"))))
    ELSE Parsed(NoNode, [p EXCEPT !.panic = "UnexpectedToken"])

\* parse_comparison after its left expression.
ComparisonFrom(inp, left) ==
    IF left.p.panic = "" /\ left.p.current_token = Tok("Assign")
    THEN ComparisonRight(inp, left.node, eat(inp, left.p, Tok("Assign")))
    ELSE left

\* Parser::parse_comparison.
parse_comparison(inp, p) ==
    ComparisonFrom(inp, parse_expression(inp, p))

Block(nodes, p) ==
    [nodes |-> nodes, p |-> p]

RECURSIVE parse_statement(_, _)
RECURSIVE BlockLoop(_, _, _)

\* statements.push(self.parse_statement()), and the loop again.
BlockStep(inp, statements, s) ==
    BlockLoop(inp, s.p, Append(statements, s.node))

\* The while loop of parse_block.
BlockLoop(inp, p, statements) ==
    IF p.panic = "" /\ p.current_token # Tok("RBrace")
                    /\ p.current_token # Tok("EOF")
    THEN BlockStep(inp, statements, parse_statement(inp, p))
    ELSE Block(statements, p)

\* Parser::parse_block.
parse_block(inp, p) ==
    BlockLoop(inp, p, <<>>)

\* parse_if after the else block.
IfEnd(inp, condition, then_branch, branch) ==
    Parsed(IfNode(condition, then_branch, branch.nodes),
           eat(inp, branch.p, Tok("RBrace")))

\* parse_if after the `}` of the then block, p the parser after it.
IfElse(inp, condition, then_branch, p) ==
    IF p.panic = "" /\ p.current_token = Tok("Else")
    THEN IfEnd(inp, condition, then_branch,
             parse_block(inp, eat(inp, eat(inp, p, Tok("Else")), Tok("LBrace"))))
    ELSE Parsed(IfNode(condition, then_branch, <<>>), p)

\* parse_if after the then block.
IfThen(inp, condition, then_branch) ==
    IfElse(inp, condition, then_branch.nodes,
           eat(inp, then_branch.p, Tok("RBrace")))

\* parse_if after the condition.
IfCondition(inp, condition) ==
    IfThen(inp, condition.node,
        parse_block(inp,
            eat(inp, eat(inp, condition.p, Tok("RParen")), Tok("LBrace"))))

\* Parser::parse_if.
parse_if(inp, p) ==
    IfCondition(inp,
        parse_comparison(inp, eat(inp, eat(inp, p, Tok("If")), Tok("LParen"))))

\* The Print arm of parse_statement after the expression.
PrintOf(inp, expr) ==
    Parsed(PrintNode(expr.node), eat(inp, expr.p, Tok("RParen")))

\* Parser::parse_statement.
parse_statement(inp, p) ==
    IF p.panic # "" THEN Parsed(NoNode, p)
    ELSE CASE p.current_token.type = "If" -> parse_if(inp, p)
           [] p.current_token.type = "Print" ->
                PrintOf(inp, parse_comparison(inp,
                    eat(inp, eat(inp, p, Tok("Print")), Tok("LParen"))))
           [] p.current_token.type = "Identifier" -> parse_assignment(inp, p)
           [] OTHER ->
                Parsed(NoNode, [p EXCEPT !.panic = "UnexpectedStatement"])

RECURSIVE ParseLoop(_, _, _)

\* nodes.push(self.parse_statement()), and the loop again.
ParseStep(inp, nodes, s) ==
    ParseLoop(inp, s.p, Append(nodes, s.node))

\* The while loop of parse.
ParseLoop(inp, p, nodes) ==
    IF p.panic = "" /\ p.current_token # Tok("EOF")
    THEN ParseStep(inp, nodes, parse_statement(inp, p))
    ELSE Block(nodes, p)

\* Parser::parse.
parse(inp, p) ==
    ParseLoop(inp, p, <<>>)

(***************************************************************************)
(* Variable collection                                                     *)
(***************************************************************************)

\* Vec::contains.
Contains(vars, name) ==
    \E i \in DOMAIN vars : vars[i] = name

RECURSIVE collect_variables(_, _)
RECURSIVE CollectEach(_, _)

\* The loops `for stmt in ... { ASTNode::collect_variables(stmt, vars) }` of
\* collect_variables and of main.
CollectEach(nodes, vars) ==
    IF nodes = <<>> THEN vars
    ELSE CollectEach(Tail(nodes), collect_variables(Head(nodes), vars))

\* ASTNode::collect_variables.
collect_variables(node, vars) ==
    CASE node.kind = "Assignment" ->
            IF ~Contains(vars, node.variable)
            THEN Append(vars, node.variable) ELSE vars
      [] node.kind = "BinaryOp" ->
            collect_variables(node.right, collect_variables(node.left, vars))
      [] node.kind = "If" ->
            CollectEach(node.then_branch \o node.else_branch,
                        collect_variables(node.condition, vars))
      [] OTHER -> vars

(***************************************************************************)
(* Code generator.  An emitted line is its text, with {} where the code    *)
(* formats a name or a number in, and that name (sym) or number (imm, a    *)
(* word).  The text is kept without its indentation and its comment.       *)
(***************************************************************************)

Line(text) ==
    [text |-> text, sym |-> "", imm |-> W(0)]

LineSym(text, sym) ==
    [text |-> text, sym |-> sym, imm |-> W(0)]

LineImm(text, imm) ==
    [text |-> text, sym |-> "", imm |-> imm]

\* The size of the scratch buffer, `buffer resb 20`.
BufferSize ==
    20

\* struct CodeGenerator: the lines written to the output file so far and
\* the label counter.
CodeGenerator(output, label_counter) ==
    [output |-> output, label_counter |-> label_counter]

\* CodeGenerator::emit.
emit(g, line) ==
    [g EXCEPT !.output = Append(@, line)]

RECURSIVE EmitAll(_, _)
EmitAll(g, lines) ==
    IF lines = <<>> THEN g ELSE EmitAll(emit(g, Head(lines)), Tail(lines))

\* CodeGenerator::emit_header.
emit_header(g, variables) ==
    EmitAll(g,
        <<Line("section .bss")>>
        \o [i \in DOMAIN variables |-> LineSym("{} resq 1", variables[i])]
        \o <<LineImm("buffer resb {}", W(BufferSize)),
             Line("section .data"),
             Line("newline db 0xA, 0"),
             Line("section .text"),
             Line("global _start"),
             LineSym("{}:", "_start")>>)

\* emit_footer whose int_to_string returns without the final `inc rcx`.
emit_footer_no_adjust(g) ==
    EmitAll(g,
        <<Line("mov rax, 60"),
          Line("xor rdi, rdi"),
          Line("syscall"),
          LineSym("{}:", "int_to_string"),
          Line("xor rdx, rdx"),
          Line("mov rbx, 10"),
          LineImm("add rcx, {}", W(BufferSize)),
          Line("dec rcx"),
          LineSym("{}:", ".convert_loop"),
          Line("xor rdx, rdx"),
          Line("div rbx"),
          Line("add dl, '0'"),
          Line("mov [rcx], dl"),
          Line("dec rcx"),
          Line("test rax, rax"),
          LineSym("jnz {}", ".convert_loop"),
          Line("ret")>>)

\* CodeGenerator::emit_footer.
emit_footer(g) ==
    EmitAll(g,
        <<Line("mov rax, 60"),
          Line("xor rdi, rdi"),
          Line("syscall"),
          LineSym("{}:", "int_to_string"),
          Line("xor rdx, rdx"),
          Line("mov rbx, 10"),
          LineImm("add rcx, {}", W(BufferSize)),
          Line("dec rcx"),
          LineSym("{}:", ".convert_loop"),
          Line("xor rdx, rdx"),
          Line("div rbx"),
          Line("add dl, '0'"),
          Line("mov [rcx], dl"),
          Line("dec rcx"),
          Line("test rax, rax"),
          LineSym("jnz {}", ".convert_loop"),
          Line("inc rcx"),
          Line("ret")>>)

RECURSIVE DecimalString(_)
\* The Display of a usize, as format! writes label_counter.
DecimalString(n) ==
    IF n < 10 THEN DigitChars[n + 1]
    ELSE DecimalString(n \div 10) \o DigitChars[(n % 10) + 1]

\* new_label that formats the label and leaves the counter as it was.
new_label_no_increment(g, prefix) ==
    [g     |-> g,
     label |-> prefix \o "_" \o DecimalString(g.label_counter + 1)]

\* CodeGenerator::new_label: the generator after the call and the label.
new_label(g, prefix) ==
    LET counter == g.label_counter + 1
    IN  [g     |-> [g EXCEPT !.label_counter = counter],
         label |-> prefix \o "_" \o DecimalString(counter)]

RECURSIVE DigitsValue(_, _)
\* The word of a run of decimal digits.
DigitsValue(cs, acc) ==
    IF cs = <<>> THEN acc
    ELSE DigitsValue(Tail(cs),
                     WAdd(WMul(acc, W(10)), W(DigitValue(Head(cs)))))

\* `*value as i64` of generate: truncation toward zero.
AsI64(value) ==
    DigitsValue(value.int, W(0))

\* The instructions generate emits for each operator of a BinaryOp.
\* OperatorLines with an addition emitted for the subtraction.
OperatorLines_AddForSub(operator) ==
    CASE operator = "+" -> <<Line("add rax, rbx")>>
      [] operator = "-" -> <<Line("add rax, rbx")>>
      [] operator = "*" -> <<Line("imul rax, rbx")>>
      [] operator = "/" -> <<Line("xor rdx, rdx"), Line("div rbx")>>
      [] operator = "==" -> <<Line("cmp rax, rbx"), Line("sete al"),
                              Line("movzx rax, al")>>

OperatorLines(operator) ==
    CASE operator = "+" -> <<Line("add rax, rbx")>>
      [] operator = "-" -> <<Line("sub rax, rbx")>>
      [] operator = "*" -> <<Line("imul rax, rbx")>>
      [] operator = "/" -> <<Line("xor rdx, rdx"), Line("div rbx")>>
      [] operator = "==" -> <<Line("cmp rax, rbx"), Line("sete al"),
                              Line("movzx rax, al")>>

\* The instructions generate emits for a Print after its expression's.
PrintLines ==
    <<Line("mov rcx, buffer"),
      LineSym("call {}", "int_to_string"),
      Line("mov rdx, buffer"),
      LineImm("add rdx, {}", W(BufferSize)),
      Line("sub rdx, rcx"),
      Line("mov rsi, rcx"),
      Line("mov rax, 1"),
      Line("mov rdi, 1"),
      Line("syscall"),
      Line("mov rsi, newline"),
      Line("mov rdx, 1"),
      Line("mov rax, 1"),
      Line("mov rdi, 1"),
      Line("syscall")>>

RECURSIVE generate(_, _)
RECURSIVE GenerateEach(_, _)

\* The loops `for stmt in branch { self.generate(stmt) }` of generate.
GenerateEach(g, nodes) ==
    IF nodes = <<>> THEN g
    ELSE GenerateEach(generate(g, Head(nodes)), Tail(nodes))

\* IfLines with the two branches exchanged.
IfLines_BranchesExchanged(g, node, else_label, end_label) ==
    emit(GenerateEach(
             emit(emit(GenerateEach(emit(g, LineSym("je {}", else_label)),
                                    node.else_branch),
                       LineSym("jmp {}", end_label)),
                  LineSym("{}:", else_label)),
             node.then_branch),
         LineSym("{}:", end_label))

\* The If arm of generate once both labels are allocated.
IfLines(g, node, else_label, end_label) ==
    emit(GenerateEach(
             emit(emit(GenerateEach(emit(g, LineSym("je {}", else_label)),
                                    node.then_branch),
                       LineSym("jmp {}", end_label)),
                  LineSym("{}:", else_label)),
             node.else_branch),
         LineSym("{}:", end_label))

\* let end_label = self.new_label("end_if"), l the result of the call.
IfEndLabel(l, node, else_label) ==
    IfLines(l.g, node, else_label, l.label)

\* let else_label = self.new_label("else"), l the result of the call.
IfElseLabel(l, node) ==
    IfEndLabel(new_label(l.g, "end_if"), node, l.label)

\* The If arm of generate.
GenerateIf(g, node) ==
    IfElseLabel(
        new_label(emit(generate(g, node.condition), Line("cmp rax, 0")), "else"),
        node)

\* CodeGenerator::generate.
generate(g, node) ==
    CASE node.kind = "Assignment" ->
            emit(generate(g, node.value), LineSym("mov [{}], rax", node.variable))
      [] node.kind = "BinaryOp" ->
            EmitAll(emit(generate(emit(generate(g, node.right),
                                       Line("push rax")),
                                  node.left),
                         Line("pop rbx")),
                    OperatorLines(node.operator))
      [] node.kind = "Number" ->
            emit(g, LineImm("mov rax, {}", AsI64(node.value)))
      [] node.kind = "Variable" ->
            emit(g, LineSym("mov rax, [{}]", node.name))
      [] node.kind = "Print" ->
            EmitAll(generate(g, node.expression), PrintLines)
      [] node.kind = "If" -> GenerateIf(g, node)

(***************************************************************************)
(* The machine that runs the emitted program: x86-64 with the Linux        *)
(* system calls write (1) and exit (60).  The registers are the six the    *)
(* emitted instructions name; of the flags only ZF is ever read.           *)
(***************************************************************************)

\* The storage a header line declares: its name and its bytes.
IsStorage(line) ==
    line.text \in {"{} resq 1", "buffer resb {}", "newline db 0xA, 0"}

SlotOf(line) ==
    CASE line.text = "{} resq 1" ->
            [name |-> line.sym, bytes |-> ZeroBytes(WordBytes)]
      [] line.text = "buffer resb {}" ->
            [name |-> "buffer", bytes |-> ZeroBytes(line.imm[1])]
      [] line.text = "newline db 0xA, 0" ->
            [name |-> "newline", bytes |-> <<10, 0>>]

\* The storage slots of an output document, in the order declared.
Slots(out) ==
    LET decl == SelectSeq(out, IsStorage)
    IN  [i \in DOMAIN decl |-> SlotOf(decl[i])]

RECURSIVE ImageOf(_)
\* The bytes of the slots, laid out one after the other.
ImageOf(slots) ==
    IF slots = <<>> THEN <<>>
    ELSE Head(slots).bytes \o ImageOf(Tail(slots))

\* Where the linker puts the first slot.
ImageBase ==
    16 * 256

\* The address of the slot called name (declared once).
AddressOf(out, name) ==
    LET slots == Slots(out)
        i     == CHOOSE j \in DOMAIN slots : slots[j].name = name
    IN  ImageBase + Len(ImageOf(SubSeq(slots, 1, i - 1)))

IsLabel(line) ==
    line.text = "{}:"

\* The index of the line that defines a label (defined once).
LabelIndex(out, name) ==
    CHOOSE i \in DOMAIN out : out[i] = LineSym("{}:", name)

\* The lines that name a storage slot as a memory operand, and those that
\* name a label as a jump or call target.
UsesSlot(line) ==
    line.text \in {"mov [{}], rax", "mov rax, [{}]"}

UsesLabel(line) ==
    line.text \in {"je {}", "jmp {}", "jnz {}", "call {}"}

TimesDeclared(out, name) ==
    Cardinality({i \in DOMAIN Slots(out) : Slots(out)[i].name = name})

TimesDefined(out, name) ==
    Cardinality({i \in DOMAIN out : out[i] = LineSym("{}:", name)})

\* The assembler accepts the document: every symbol is defined once, and
\* every symbol an instruction names is defined.
Assembles(out) ==
    /\ \A i \in DOMAIN out :
         /\ IsStorage(out[i]) => TimesDeclared(out, SlotOf(out[i]).name) = 1
         /\ IsLabel(out[i])   => TimesDefined(out, out[i].sym) = 1
         /\ UsesSlot(out[i])  => TimesDeclared(out, out[i].sym) = 1
         /\ UsesLabel(out[i]) => TimesDefined(out, out[i].sym) = 1
    /\ TimesDeclared(out, "buffer") = 1
    /\ TimesDeclared(out, "newline") = 1
    /\ TimesDefined(out, "_start") = 1

\* The machine before the program is loaded, and when the assembler
\* rejects the document.  Three fields record the run and are read by no
\* instruction: the lines executed, <<line, rax>> at each `cmp rax, 0`,
\* and rax at each call of int_to_string.
MachineOff(status) ==
    [rax |-> W(0), rbx |-> W(0), rcx |-> W(0), rdx |-> W(0),
     rsi |-> W(0), rdi |-> W(0), zf |-> 0, ip |-> 0, stack |-> <<>>,
     memory |-> <<>>, stdout |-> <<>>, stderr |-> <<>>,
     status |-> status, exit_code |-> 0,
     executed |-> {}, cond |-> <<>>, printed |-> <<>>]

\* The process at its entry point: registers zero, the image loaded.
Loaded(out) ==
    IF Assembles(out)
    THEN [MachineOff("running") EXCEPT
             !.ip = LabelIndex(out, "_start"),
             !.memory = ImageOf(Slots(out))]
    ELSE MachineOff("asm_error")

\* ZF after an instruction whose result is w.
ZeroFlag(w) ==
    IF w = W(0) THEN 1 ELSE 0

\* ZF after imul and div, which leave it undefined.
UndefinedFlag ==
    2

\* The index into memory of the address a register holds, 0 when the
\* address is outside the image.
MemIndex(m, w) ==
    IF \A i \in 4..WordBytes : w[i] = 0
    THEN LET a == w[1] + 256 * w[2] + 65536 * w[3] - ImageBase + 1
         IN  IF a >= 1 /\ a <= Len(m.memory) THEN a ELSE 0
    ELSE 0

Stopped(m, status) ==
    [m EXCEPT !.status = status]

\* mov rax, [name] / mov [name], rax: a quadword at a slot.
LoadWord(m, out, name) ==
    LET a == AddressOf(out, name) - ImageBase + 1
    IN  SubSeq(m.memory, a, a + WordBytes - 1)

StoreBytes(memory, a, bytes) ==
    [i \in DOMAIN memory |->
        IF i >= a /\ i < a + Len(bytes) THEN bytes[i - a + 1] ELSE memory[i]]

\* The system call instruction: write(rdi, rsi, rdx) and exit(rdi).  The
\* kernel returns the count in rax and leaves the return address in rcx.
Syscall(m) ==
    CASE m.rax = W(60) ->
            [m EXCEPT !.status = "exited", !.exit_code = m.rdi[1]]
      [] m.rax = W(1) ->
            LET a == MemIndex(m, m.rsi)
                n == m.rdx[1] + 256 * m.rdx[2]
                ok == /\ a >= 1
                      /\ \A i \in 3..WordBytes : m.rdx[i] = 0
                      /\ a + n - 1 <= Len(m.memory)
                bytes == SubSeq(m.memory, a, a + n - 1)
            IN  IF ~ok THEN [m EXCEPT !.rax = WSub(W(0), W(14)),
                                      !.rcx = W(m.ip + 1)]
                ELSE [m EXCEPT
                        !.stdout = IF m.rdi = W(1) THEN @ \o bytes ELSE @,
                        !.stderr = IF m.rdi = W(2) THEN @ \o bytes ELSE @,
                        !.rax = m.rdx, !.rcx = W(m.ip + 1)]
      [] OTHER -> [m EXCEPT !.rax = WSub(W(0), W(38)), !.rcx = W(m.ip + 1)]

\* div rbx: rdx:rax divided by rbx; a zero divisor or a quotient that does
\* not fit rax raises the divide error, which kills the process.
Div(m) ==
    IF m.rbx = W(0) THEN Stopped(m, "divide_error")
    ELSE LET qr == DivBytes(m.rax \o m.rdx, m.rbx)
         IN  IF SubSeq(qr[1], WordBytes + 1, 2 * WordBytes) # W(0)
             THEN Stopped(m, "divide_error")
             ELSE [m EXCEPT !.rax = SubSeq(qr[1], 1, WordBytes),
                            !.rdx = qr[2], !.zf = UndefinedFlag]

\* The effect of the instruction `line` on the registers, memory and
\* streams; zf is ZF as the instruction reads it.
Effect(m, out, line, zf) ==
    LET t == line.text IN
    CASE t = "mov rax, {}"    -> [m EXCEPT !.rax = line.imm]
      [] t = "mov rax, [{}]"  -> [m EXCEPT !.rax = LoadWord(m, out, line.sym)]
      [] t = "mov [{}], rax"  ->
            [m EXCEPT !.memory = StoreBytes(
                 @, AddressOf(out, line.sym) - ImageBase + 1, m.rax)]
      [] t = "push rax"       -> [m EXCEPT !.stack = Append(@, m.rax)]
      [] t = "pop rbx"        ->
            IF m.stack = <<>> THEN Stopped(m, "fault")
            ELSE [m EXCEPT !.rbx = m.stack[Len(m.stack)],
                           !.stack = SubSeq(@, 1, Len(@) - 1)]
      [] t = "add rax, rbx"   ->
            [m EXCEPT !.rax = WAdd(m.rax, m.rbx),
                      !.zf = ZeroFlag(WAdd(m.rax, m.rbx))]
      [] t = "sub rax, rbx"   ->
            [m EXCEPT !.rax = WSub(m.rax, m.rbx),
                      !.zf = ZeroFlag(WSub(m.rax, m.rbx))]
      [] t = "imul rax, rbx"  ->
            [m EXCEPT !.rax = WMul(m.rax, m.rbx), !.zf = UndefinedFlag]
      [] t = "xor rdx, rdx"   -> [m EXCEPT !.rdx = W(0), !.zf = 1]
      [] t = "xor rdi, rdi"   -> [m EXCEPT !.rdi = W(0), !.zf = 1]
      [] t = "div rbx"        -> Div(m)
      [] t = "cmp rax, rbx"   -> [m EXCEPT !.zf = ZeroFlag(WSub(m.rax, m.rbx))]
      [] t = "cmp rax, 0"     ->
            [m EXCEPT !.zf = ZeroFlag(m.rax),
                      !.cond = Append(@, <<m.ip, m.rax>>)]
      [] t = "test rax, rax"  -> [m EXCEPT !.zf = ZeroFlag(m.rax)]
      [] t = "sete al"        -> [m EXCEPT !.rax[1] = zf]
      [] t = "movzx rax, al"  -> [m EXCEPT !.rax = W(m.rax[1])]
      [] t = "mov rcx, buffer" -> [m EXCEPT !.rcx = W(AddressOf(out, "buffer"))]
      [] t = "mov rdx, buffer" -> [m EXCEPT !.rdx = W(AddressOf(out, "buffer"))]
      [] t = "mov rsi, newline" ->
            [m EXCEPT !.rsi = W(AddressOf(out, "newline"))]
      [] t = "add rcx, {}"    ->
            [m EXCEPT !.rcx = WAdd(m.rcx, line.imm),
                      !.zf = ZeroFlag(WAdd(m.rcx, line.imm))]
      [] t = "add rdx, {}"    ->
            [m EXCEPT !.rdx = WAdd(m.rdx, line.imm),
                      !.zf = ZeroFlag(WAdd(m.rdx, line.imm))]
      [] t = "sub rdx, rcx"   ->
            [m EXCEPT !.rdx = WSub(m.rdx, m.rcx),
                      !.zf = ZeroFlag(WSub(m.rdx, m.rcx))]
      [] t = "dec rcx"        ->
            [m EXCEPT !.rcx = WSub(m.rcx, W(1)),
                      !.zf = ZeroFlag(WSub(m.rcx, W(1)))]
      [] t = "inc rcx"        ->
            [m EXCEPT !.rcx = WAdd(m.rcx, W(1)),
                      !.zf = ZeroFlag(WAdd(m.rcx, W(1)))]
      [] t = "mov rsi, rcx"   -> [m EXCEPT !.rsi = m.rcx]
      [] t = "mov rax, 1"     -> [m EXCEPT !.rax = W(1)]
      [] t = "mov rdi, 1"     -> [m EXCEPT !.rdi = W(1)]
      [] t = "mov rdx, 1"     -> [m EXCEPT !.rdx = W(1)]
      [] t = "mov rax, 60"    -> [m EXCEPT !.rax = W(60)]
      [] t = "mov rbx, 10"    -> [m EXCEPT !.rbx = W(10)]
      [] t = "add dl, '0'"    ->
            [m EXCEPT !.rdx[1] = (@ + 48) % 256,
                      !.zf = IF (m.rdx[1] + 48) % 256 = 0 THEN 1 ELSE 0]
      [] t = "mov [rcx], dl"  ->
            IF MemIndex(m, m.rcx) = 0 THEN Stopped(m, "fault")
            ELSE [m EXCEPT !.memory[MemIndex(m, m.rcx)] = m.rdx[1]]
      [] t = "syscall"        -> Syscall(m)
      [] t = "call {}"        ->
            [m EXCEPT !.stack = Append(@, W(m.ip + 1)),
                      !.printed = Append(@, m.rax)]
      [] t = "ret"            ->
            IF m.stack = <<>> THEN Stopped(m, "fault")
            ELSE [m EXCEPT !.stack = SubSeq(@, 1, Len(@) - 1)]
      [] OTHER                -> m

\* The instruction executed after `line`.
NextIp(m, out, line, zf) ==
    LET t == line.text IN
    CASE t \in {"jmp {}", "call {}"} -> LabelIndex(out, line.sym)
      [] t = "je {}"  -> IF zf = 1 THEN LabelIndex(out, line.sym) ELSE m.ip + 1
      [] t = "jnz {}" -> IF zf = 0 THEN LabelIndex(out, line.sym) ELSE m.ip + 1
      [] t = "ret" /\ m.stack # <<>> ->
            LET w == m.stack[Len(m.stack)] IN w[1] + 256 * w[2]
      [] OTHER -> m.ip + 1

\* The machine m1 after the effect of the instruction at m.ip, moved on.
Moved(m, out, zf, m1) ==
    [m1 EXCEPT !.ip = IF m1.status = "running"
                      THEN NextIp(m, out, out[m.ip], zf) ELSE m.ip,
               !.executed = @ \cup {m.ip}]

\* One instruction of the running machine.  A label is a step that does
\* nothing; running past the last line is a fault.
Step(m, out, zf) ==
    IF m.ip > Len(out) THEN Stopped(m, "fault")
    ELSE Moved(m, out, zf, Effect(m, out, out[m.ip], zf))

(***************************************************************************)
(* State                                                                   *)
(***************************************************************************)

VARIABLES
    input,          \* Lexer.input: the characters of the source text
    position,       \* Lexer.position
    current_token,  \* Parser.current_token: the token next_token last gave
    panic,          \* the panic that aborted the compilation, "" if none
    pc,             \* where main is
    ast,            \* main's ast
    variables,      \* main's variables
    file_created,   \* whether output.asm has been created
    codegen,        \* main's codegen: the lines written and label_counter
    next_node,      \* the index in ast of the node main generates next
    machine         \* the process that runs the assembled output

vars ==
    <<input, position, current_token, panic, pc, ast, variables,
      file_created, codegen, next_node, machine>>

(***************************************************************************)
(* Inputs: source texts made of a bounded number of pieces, each piece     *)
(* followed by a blank.                                                    *)
(***************************************************************************)

RECURSIVE Join(_)
Join(pieces) ==
    IF pieces = <<>> THEN <<>>
    ELSE Head(pieces) \o <<" ">> \o Join(Tail(pieces))

PieceSeqs(pieces, n) ==
    UNION {[1..k -> pieces] : k \in 0..n}

\* The state of main before its first statement, on the source text src.
Start(src) ==
    /\ input = src
    /\ position = 0
    /\ current_token = NoToken
    /\ panic = ""
    /\ pc = "start"
    /\ ast = <<>>
    /\ variables = <<>>
    /\ file_created = FALSE
    /\ codegen = CodeGenerator(<<>>, 0)
    /\ next_node = 1
    /\ machine = MachineOff("off")

(***************************************************************************)
(* main                                                                    *)
(***************************************************************************)

\* The parser's state p stored; a panic ends main.
ParserStored(p, then) ==
    /\ position' = p.position
    /\ current_token' = p.current_token
    /\ panic' = p.panic
    /\ pc' = IF p.panic = "" THEN then ELSE "panicked"

\* main with the code generator (and so the output file) created first.
MainNewParser_CreatesFile ==
    /\ pc = "start"
    /\ ParserStored(Parser_new(input), "parse")
    /\ file_created' = TRUE
    /\ UNCHANGED <<input, ast, variables, codegen, next_node, machine>>

\* let mut parser = Parser::new(lexer): the first next_token.
MainNewParser ==
    /\ pc = "start"
    /\ ParserStored(Parser_new(input), "parse")
    /\ UNCHANGED <<input, ast, variables, file_created, codegen, next_node,
                   machine>>

Parsing(r) ==
    /\ ParserStored(r.p, "collect")
    /\ ast' = IF r.p.panic = "" THEN r.nodes ELSE ast

\* let ast = parser.parse().
MainParse ==
    /\ pc = "parse"
    /\ Parsing(parse(input, ParserState(position, current_token, "")))
    /\ UNCHANGED <<input, variables, file_created, codegen, next_node, machine>>

\* for node in &ast { ASTNode::collect_variables(node, &mut variables) }
MainCollect ==
    /\ pc = "collect"
    /\ variables' = CollectEach(ast, <<>>)
    /\ pc' = "create"
    /\ UNCHANGED <<input, position, current_token, panic, ast, file_created,
                   codegen, next_node, machine>>

\* let mut codegen = CodeGenerator::new("output.asm"): File::create.
MainNewCodeGenerator ==
    /\ pc = "create"
    /\ file_created' = TRUE
    /\ codegen' = CodeGenerator(<<>>, 0)
    /\ pc' = "header"
    /\ UNCHANGED <<input, position, current_token, panic, ast, variables,
                   next_node, machine>>

\* codegen.emit_header(&variables).
MainEmitHeader ==
    /\ pc = "header"
    /\ codegen' = emit_header(codegen, variables)
    /\ next_node' = 1
    /\ pc' = "generate"
    /\ UNCHANGED <<input, position, current_token, panic, ast, variables,
                   file_created, machine>>

\* One turn of `for node in ast { codegen.generate(&node) }`.
MainGenerate ==
    /\ pc = "generate"
    /\ next_node <= Len(ast)
    /\ codegen' = generate(codegen, ast[next_node])
    /\ next_node' = next_node + 1
    /\ UNCHANGED <<input, position, current_token, panic, pc, ast, variables,
                   file_created, machine>>

\* codegen.emit_footer(), and main returns.
MainEmitFooter ==
    /\ pc = "generate"
    /\ next_node > Len(ast)
    /\ codegen' = emit_footer(codegen)
    /\ pc' = "done"
    /\ UNCHANGED <<input, position, current_token, panic, ast, variables,
                   file_created, next_node, machine>>

(***************************************************************************)
(* The run of the generated program                                        *)
(***************************************************************************)

\* The output document is assembled, linked and started.
RunLoad ==
    /\ pc = "done"
    /\ machine' = Loaded(codegen.output)
    /\ pc' = "run"
    /\ UNCHANGED <<input, position, current_token, panic, ast, variables,
                   file_created, codegen, next_node>>

\* The process executes one instruction.  An instruction that reads ZF
\* after imul or div left it undefined may read either value.
RunStep ==
    /\ pc = "run"
    /\ machine.status = "running"
    /\ \E zf \in (IF machine.zf = UndefinedFlag THEN {0, 1} ELSE {machine.zf}) :
          machine' = Step(machine, codegen.output, zf)
    /\ UNCHANGED <<input, position, current_token, panic, pc, ast, variables,
                   file_created, codegen, next_node>>

Next ==
    \/ MainNewParser
    \/ MainParse
    \/ MainCollect
    \/ MainNewCodeGenerator
    \/ MainEmitHeader
    \/ MainGenerate
    \/ MainEmitFooter
    \/ RunLoad
    \/ RunStep

(***************************************************************************)
(* Spec: programs of assignments, divisions, prints and conditionals.      *)
(***************************************************************************)

\* The greatest number of pieces of a source text.
MaxPieces ==
    4

ControlPieces ==
    {<<"y", "=", "1">>,
     <<"y", "=", "1", "/", "y">>,
     <<"p", "r", "i", "n", "t", "(", "y", ")">>,
     <<"i", "f", "(", "y", ")", "{">>,
     <<"i", "f", "(", "1", ")", "{">>,
     <<"}", "e", "l", "s", "e", "{">>,
     <<"}">>}

Init ==
    \E ps \in PieceSeqs(ControlPieces, MaxPieces) : Start(Join(ps))

Spec ==
    Init /\ [][Next]_vars

(***************************************************************************)
(* SpecErrors: source texts rich in lexical and syntax errors.             *)
(***************************************************************************)

ErrorPieces ==
    {<<"y", "=", "1">>,
     <<"p", "r", "i", "n", "t", "(", "y", ")">>,
     <<"i", "f", "(", "y", ")", "{">>,
     <<"}">>,
     <<"=">>,
     <<"+", "2">>,
     <<"&">>,
     <<"1", ".", "2", ".", "3">>}

InitErrors ==
    \E ps \in PieceSeqs(ErrorPieces, MaxPieces) : Start(Join(ps))

SpecErrors ==
    InitErrors /\ [][Next]_vars

(***************************************************************************)
(* SpecNames: programs over three variables, read and written in every     *)
(* kind of statement.                                                      *)
(***************************************************************************)

NamePieces ==
    {<<"x", "=", "1">>,
     <<"y", "=", "x">>,
     <<"z", "=", "x", "+", "y">>,
     <<"p", "r", "i", "n", "t", "(", "z", ")">>,
     <<"i", "f", "(", "y", ")", "{">>,
     <<"}">>}

InitNames ==
    \E ps \in PieceSeqs(NamePieces, MaxPieces) : Start(Join(ps))

SpecNames ==
    InitNames /\ [][Next]_vars

(***************************************************************************)
(* SpecExpr: `x = 7  if ( E ) { }` for every expression E of up to MaxOps  *)
(* operators, at most one of them ==, and the program `x = 2 + 3 * 4       *)
(* print(x)`.                                                              *)
(***************************************************************************)

\* The greatest number of operators of an expression.
MaxOps ==
    2

ExprTerms ==
    {<<"x">>, <<"0">>}

ExprOps ==
    {<<"+">>, <<"-">>, <<"*">>, <<"/">>, <<"=", "=">>}

\* t1 op1 t2 ... opn tn+1, as a sequence of lexemes.
Interleave(terms, ops) ==
    [i \in 1..(2 * Len(ops) + 1) |->
        IF i % 2 = 1 THEN terms[(i + 1) \div 2] ELSE ops[i \div 2]]

Expressions(n) ==
    {Interleave(terms, ops) :
        terms \in [1..(n + 1) -> ExprTerms],
        ops \in {o \in [1..n -> ExprOps] :
                    Cardinality({i \in 1..n : o[i] = <<"=", "=">>}) <= 1}}

ExprProgram(e) ==
    Join(<<<<"x", "=", "7">>, <<"i", "f">>, <<"(">>>> \o e
         \o <<<<")">>, <<"{">>, <<"}">>>>)

ExampleProgram ==
    Join(<<<<"x">>, <<"=">>, <<"2">>, <<"+">>, <<"3">>, <<"*">>, <<"4">>,
           <<"\n">>, <<"p", "r", "i", "n", "t">>, <<"(">>, <<"x">>, <<")">>>>)

InitExpr ==
    \/ \E n \in 0..MaxOps : \E e \in Expressions(n) : Start(ExprProgram(e))
    \/ Start(ExampleProgram)

SpecExpr ==
    InitExpr /\ [][Next]_vars

(***************************************************************************)
(* SpecPrint: `print ( A * B )` and `print ( 0 - A )` for the numerals A   *)
(* and B of up to MaxDigits digits that are all nines or a power of ten.   *)
(***************************************************************************)

\* The greatest number of digits of a numeral.
MaxDigits ==
    10

Numerals ==
    {<<"0">>}
    \cup {[i \in 1..k |-> "9"] : k \in 1..MaxDigits}
    \cup {[i \in 1..k |-> IF i = 1 THEN "1" ELSE "0"] : k \in 1..MaxDigits}

PrintProgram(a, op, b) ==
    Join(<<<<"p", "r", "i", "n", "t">>, <<"(">>, a, op, b, <<")">>>>)

InitPrint ==
    \/ \E a \in Numerals : \E b \in Numerals :
          Start(PrintProgram(a, <<"*">>, b))
    \/ \E a \in Numerals : Start(PrintProgram(<<"0">>, <<"-">>, a))

SpecPrint ==
    InitPrint /\ [][Next]_vars

(***************************************************************************)
(* SpecLexer: next_token called again and again on every text of up to     *)
(* MaxInputLen characters.                                                 *)
(***************************************************************************)

\* The greatest length of an input of the lexer.
MaxInputLen ==
    3

LexerChars ==
    {"i", "1", ".", "=", " ", "&"}

InitLexer ==
    /\ input \in PieceSeqs(LexerChars, MaxInputLen)
    /\ position = 0
    /\ current_token = NoToken
    /\ panic = ""
    /\ pc = "lexing"
    /\ ast = <<>>
    /\ variables = <<>>
    /\ file_created = FALSE
    /\ codegen = CodeGenerator(<<>>, 0)
    /\ next_node = 1
    /\ machine = MachineOff("off")

\* A call of next_token whose token is stored, as Parser::new and
\* Parser::eat do.  A call that panics ends the process.
LexerNextToken ==
    /\ pc = "lexing"
    /\ panic = ""
    /\ ParserStored(Advance(input, ParserState(position, current_token, "")),
                    "lexing")
    /\ UNCHANGED <<input, ast, variables, file_created, codegen, next_node,
                   machine>>

NextLexer ==
    LexerNextToken

\* The caller calls next_token until it has EOF (parse, parse_block), so a
\* call that can be made is made.
SpecLexer ==
    InitLexer /\ [][NextLexer]_vars /\ WF_vars(LexerNextToken)

(***************************************************************************)
(* Claims                                                                  *)
(***************************************************************************)

Output == codegen.output

\* C1: every division emitted for a BinaryOp "/" is guarded: the process
\* never executes `div rbx` with a zero divisor (it branches to a handler
\* instead), so it is never killed by the divide error.
C1_DivisionGuarded ==
    /\ machine.status # "divide_error"
    /\ (/\ machine.status = "running"
        /\ machine.ip \in DOMAIN Output
        /\ machine.ip > 2
        /\ Output[machine.ip] = Line("div rbx")
        /\ Output[machine.ip - 2] = Line("pop rbx"))
       => machine.rbx # W(0)

\* C2: when lexing or parsing fails, the compilation has stopped, the
\* output file has not been created and no line has been emitted.
C2_NoOutputOnFailure ==
    panic # "" =>
        /\ pc = "panicked"
        /\ ~file_created
        /\ Output = <<>>

\* A source whose second statement holds an unrecognized character.
C2_Witness ==
    /\ pc = "panicked"
    /\ panic = "UnexpectedCharacter"
    /\ position > 4
    /\ ~file_created

RECURSIVE NamesOf(_)
RECURSIVE NamesOfEach(_)
NamesOfEach(nodes) ==
    IF nodes = <<>> THEN <<>>
    ELSE NamesOf(Head(nodes)) \o NamesOfEach(Tail(nodes))

\* The variable names of a node as they are read, left to right.
NamesOf(node) ==
    CASE node.kind = "Assignment" -> <<node.variable>> \o NamesOf(node.value)
      [] node.kind = "BinaryOp"   -> NamesOf(node.left) \o NamesOf(node.right)
      [] node.kind = "Variable"   -> <<node.name>>
      [] node.kind = "Print"      -> NamesOf(node.expression)
      [] node.kind = "If"         ->
            NamesOf(node.condition) \o NamesOfEach(node.then_branch)
                \o NamesOfEach(node.else_branch)
      [] OTHER -> <<>>

\* The first occurrences of a sequence, in order.
FirstOccurrences(names) ==
    SelectSeq([i \in DOMAIN names |->
                  IF \E j \in 1..(i - 1) : names[j] = names[i]
                  THEN "" ELSE names[i]],
              LAMBDA n : n # "")

Collected ==
    pc \in {"create", "header", "generate", "done", "run"}

\* C4: the collected name list holds no name twice and lists the variable
\* names in the order in which they first occur in the program.
C4_FirstOccurrenceOrder ==
    Collected => variables = FirstOccurrences(NamesOfEach(ast))

Emitted ==
    pc \in {"done", "run"}

\* C10: every name the instruction section uses as a memory operand is
\* declared as exactly one storage slot in the header.
C10_OperandsDeclared ==
    Emitted =>
        \A i \in DOMAIN Output :
            UsesSlot(Output[i]) => TimesDeclared(Output, Output[i].sym) = 1

IsJe(line) == line.text = "je {}"
IsJmp(line) == line.text = "jmp {}"

\* The number n of the label prefix_n, 0 if the label is not of that form.
LabelNumber(prefix, label, max) ==
    IF \E n \in 1..max : label = prefix \o "_" \o DecimalString(n)
    THEN CHOOSE n \in 1..max : label = prefix \o "_" \o DecimalString(n)
    ELSE 0

ElseNumbers ==
    LET je == SelectSeq(Output, IsJe)
    IN  [k \in DOMAIN je |-> LabelNumber("else", je[k].sym, 2 * Len(Output))]

\* The labels of the output so far: none defined twice, every jump target
\* of a finished If defined once, the else labels numbered increasingly.
C5_Labels ==
    /\ \A i, j \in DOMAIN Output :
          (IsLabel(Output[i]) /\ IsLabel(Output[j])
              /\ Output[i].sym = Output[j].sym) => i = j
    /\ \A i \in DOMAIN Output :
          (IsJe(Output[i]) \/ IsJmp(Output[i])) /\ pc # "generate"
              => TimesDefined(Output, Output[i].sym) = 1
    /\ \A k \in DOMAIN ElseNumbers :
          /\ ElseNumbers[k] > 0
          /\ \A l \in DOMAIN ElseNumbers : k < l => ElseNumbers[k] < ElseNumbers[l]

\* C5: no label is defined twice in the output, every label an If jumps to
\* is defined once, the else labels are numbered increasingly in source
\* order, and label_counter never decreases.
C5_LabelsUnique ==
    /\ []C5_Labels
    /\ [][codegen'.label_counter >= codegen.label_counter]_vars

\* A finished output with two conditionals or more.
C5_Witness ==
    /\ pc = "done"
    /\ Len(SelectSeq(Output, IsJe)) >= 2

\* C6: unless a call panics, next_token gives EOF after finitely many
\* calls; a call that gives another token moves the cursor forward; once
\* EOF was given every call gives EOF and leaves the cursor where it is.
C6_TokenStreamEnds ==
    /\ <>(panic # "" \/ current_token = Tok("EOF"))
    /\ [][(panic' = "" /\ current_token' # Tok("EOF"))
             => position' > position]_vars
    /\ [][current_token = Tok("EOF")
             => /\ current_token' = Tok("EOF")
                /\ position' = position
                /\ panic' = ""]_vars

\* EOF given after the whole of an input of three characters or more.
C6_Witness ==
    /\ pc = "lexing"
    /\ panic = ""
    /\ current_token = Tok("EOF")
    /\ position >= 3

RECURSIVE Split(_, _)
\* The lexemes of a text whose lexemes are set apart by spaces.
Split(text, word) ==
    LET done == IF word = <<>> THEN <<>> ELSE <<word>>
    IN  IF text = <<>> THEN done
        ELSE IF Head(text) = " " THEN done \o Split(Tail(text), <<>>)
        ELSE Split(Tail(text), Append(word, Head(text)))

First(lexemes, lexeme) ==
    CHOOSE i \in DOMAIN lexemes :
        /\ lexemes[i] = lexeme
        /\ \A j \in 1..(i - 1) : lexemes[j] # lexeme

\* The lexemes after the first `open` and before the first `close`.
Between(lexemes, open, close) ==
    SubSeq(lexemes, First(lexemes, open) + 1, First(lexemes, close) - 1)

\* The lexemes of the expression of a program of SpecExpr: the condition
\* of its If, or the value of the assignment of the example.
ExpressionLexemes ==
    IF input = ExampleProgram
    THEN Between(Split(input, <<>>), <<"=">>, <<"\n">>)
    ELSE Between(Split(input, <<>>), <<"(">>, <<")">>)

\* The tree the parser made of them.
ParsedExpression ==
    IF input = ExampleProgram THEN ast[1].value ELSE ast[2].condition

TermOf(lexeme) ==
    IF is_numeric(lexeme[1]) THEN NumberNode(ParseF64(lexeme))
    ELSE VariableNode(Concat(lexeme))

RECURSIVE LeftNested(_)
\* (((t1 op1 t2) op2 t3) ... opn tn+1) of t1 op1 t2 ... opn tn+1.
LeftNested(lexemes) ==
    IF Len(lexemes) = 1 THEN TermOf(lexemes[1])
    ELSE BinaryOp(LeftNested(SubSeq(lexemes, 1, Len(lexemes) - 2)),
                  Concat(lexemes[Len(lexemes) - 1]),
                  TermOf(lexemes[Len(lexemes)]))

\* The two sides of a comparison, each left nested.
LeftNestedSides(lexemes) ==
    IF \E i \in DOMAIN lexemes : lexemes[i] = <<"=", "=">>
    THEN LET i == First(lexemes, <<"=", "=">>)
         IN  BinaryOp(LeftNested(SubSeq(lexemes, 1, i - 1)), "==",
                      LeftNested(SubSeq(lexemes, i + 1, Len(lexemes))))
    ELSE LeftNested(lexemes)

\* C3: of t1 op1 t2 ... opn tn+1 parse_expression makes the tree
\* (((t1 op1 t2) op2 t3) ... opn tn+1): left nested, the four operators at
\* one precedence.
C3_LeftNested ==
    ast # <<>> => ParsedExpression = LeftNestedSides(ExpressionLexemes)

\* t1 + t2 * t3 parsed as (t1 + t2) * t3.
C3_Witness ==
    /\ pc = "collect"
    /\ input # ExampleProgram
    /\ ParsedExpression.kind = "BinaryOp"
    /\ ParsedExpression.operator = "*"
    /\ ParsedExpression.left.kind = "BinaryOp"
    /\ ParsedExpression.left.operator = "+"

Value(word) ==
    [ok |-> TRUE, value |-> word]

Undefined ==
    [ok |-> FALSE, value |-> W(0)]

\* left op right in 64 bit arithmetic.
Apply(operator, left, right) ==
    CASE operator = "+" -> Value(WAdd(left, right))
      [] operator = "-" -> Value(WSub(left, right))
      [] operator = "*" -> Value(WMul(left, right))
      [] operator = "/" ->
            IF right = W(0) THEN Undefined
            ELSE Value(DivBytes(left, right)[1])
      [] operator = "==" -> Value(IF left = right THEN W(1) ELSE W(0))

RECURSIVE Eval(_, _)
\* The value of an expression where the variables hold env.
Eval(node, env) ==
    CASE node.kind = "Number" -> Value(DigitsValue(node.value.int, W(0)))
      [] node.kind = "Variable" -> Value(env[node.name])
      [] node.kind = "BinaryOp" ->
            LET left  == Eval(node.left, env)
                right == Eval(node.right, env)
            IN  IF left.ok /\ right.ok
                THEN Apply(node.operator, left.value, right.value)
                ELSE Undefined

\* What the variables of the program hold.
Environment ==
    [name \in {variables[i] : i \in DOMAIN variables} |->
        LoadWord(machine, Output, name)]

AtLine(line) ==
    /\ pc = "run"
    /\ machine.status = "running"
    /\ machine.ip \in DOMAIN Output
    /\ Output[machine.ip] = line

\* C9: when the instructions of an expression have run, rax holds the
\* value of the expression: left + right, left - right, left * right
\* modulo 2^64, the unsigned quotient of left by right, 1 or 0 for ==; and
\* `x = 2 + 3 * 4  print(x)` prints 20.
C9_Evaluation ==
    /\ (AtLine(Line("cmp rax, 0")) /\ input # ExampleProgram) =>
          /\ Eval(ParsedExpression, Environment).ok
          /\ machine.rax = Eval(ParsedExpression, Environment).value
    /\ (pc = "run" /\ input = ExampleProgram /\ machine.status = "exited") =>
          machine.stdout = <<50, 48, 10>>

\* x / x - x evaluated to 1 - 7, that is to 2^64 - 6.
C9_Witness ==
    /\ AtLine(Line("cmp rax, 0"))
    /\ input # ExampleProgram
    /\ ParsedExpression.kind = "BinaryOp"
    /\ ParsedExpression.operator = "-"
    /\ ParsedExpression.left.kind = "BinaryOp"
    /\ ParsedExpression.left.operator = "/"
    /\ machine.rax = WSub(W(1), W(7))

RECURSIVE DecimalValue(_, _)
\* The number a run of ASCII digits writes, most significant first, in
\* bytes as many as acc has.
DecimalValue(digits, acc) ==
    IF digits = <<>> THEN acc
    ELSE DecimalValue(Tail(digits),
             AddBytes(MulFrom(acc, NatToBytes(10, Len(acc)), 1, 0),
                      NatToBytes(Head(digits) - 48, Len(acc)), 0))

\* What standard output holds before its last byte.
Written ==
    SubSeq(machine.stdout, 1, Len(machine.stdout) - 1)

\* Where the scratch buffer starts in the memory, less one.
BufferStart ==
    AddressOf(Output, "buffer") - ImageBase

\* C8: Print writes the decimal digits of the value of rax, most
\* significant first, at least one, no leading zero (`0` for 0), and then
\* one newline; the digits are stored at the end of the 20-byte buffer,
\* nothing is stored outside of it, and as many bytes are written as the
\* value has digits.
C8_PrintsDecimal ==
    /\ machine.status \notin {"fault", "divide_error"}
    /\ (pc = "run" /\ machine.status = "exited") =>
          /\ Len(machine.printed) = 1
          /\ Len(machine.stdout) >= 2
          /\ Len(Written) <= BufferSize
          /\ machine.stdout[Len(machine.stdout)] = 10
          /\ \A i \in DOMAIN Written : Written[i] \in 48..57
          /\ (Written[1] = 48 => Len(Written) = 1)
          /\ DecimalValue(Written, ZeroBytes(WordBytes + 1))
                = machine.printed[1] \o <<0>>
          /\ SubSeq(machine.memory, BufferStart + BufferSize - Len(Written) + 1,
                    BufferStart + BufferSize) = Written
          /\ \A i \in DOMAIN machine.memory :
                (i <= BufferStart \/ i > BufferStart + BufferSize)
                    => machine.memory[i] = ImageOf(Slots(Output))[i]

\* A value of twenty digits printed: the whole buffer is in use.
C8_Witness ==
    /\ pc = "run"
    /\ machine.status = "exited"
    /\ Len(machine.stdout) = BufferSize + 1
    /\ machine.memory[BufferStart + 1] \in 49..57

RECURSIVE Size(_)
RECURSIVE SizeEach(_)
SizeEach(nodes) ==
    IF nodes = <<>> THEN 0 ELSE Size(Head(nodes)) + SizeEach(Tail(nodes))

\* How many lines the instructions of a node take.
Size(node) ==
    CASE node.kind = "Number"     -> 1
      [] node.kind = "Variable"   -> 1
      [] node.kind = "Assignment" -> Size(node.value) + 1
      [] node.kind = "Print"      -> Size(node.expression) + 14
      [] node.kind = "BinaryOp"   ->
            Size(node.right) + 1 + Size(node.left) + 1
                + (CASE node.operator = "/"  -> 2
                     [] node.operator = "==" -> 3
                     [] OTHER                -> 1)
      [] node.kind = "If"         ->
            Size(node.condition) + 2 + SizeEach(node.then_branch) + 2
                + SizeEach(node.else_branch) + 1

RECURSIVE IfSites(_, _)
RECURSIVE IfSitesEach(_, _)
IfSitesEach(nodes, at) ==
    IF nodes = <<>> THEN {}
    ELSE IfSites(Head(nodes), at)
            \cup IfSitesEach(Tail(nodes), at + Size(Head(nodes)))

\* The If nodes of a node whose instructions start at line `at`: for each
\* the lines of its compare, its two jumps and its two labels.
IfSites(node, at) ==
    IF node.kind # "If" THEN {}
    ELSE LET cmp  == at + Size(node.condition)
             jmp  == cmp + 2 + SizeEach(node.then_branch)
             stop == jmp + 2 + SizeEach(node.else_branch)
         IN  {[cmp |-> cmp, je |-> cmp + 1, jmp |-> jmp, else_label |-> jmp + 1,
               end_label |-> stop, else_branch |-> node.else_branch]}
             \cup IfSitesEach(node.then_branch, cmp + 2)
             \cup IfSitesEach(node.else_branch, jmp + 2)

\* The If nodes of the program that runs.
Sites ==
    IF pc = "run" /\ machine.status # "asm_error"
    THEN IfSitesEach(ast, LabelIndex(Output, "_start") + 1)
    ELSE {}

\* The values the condition of the If at s had when it was compared.
Compared(s) ==
    {machine.cond[k][2] :
        k \in {j \in DOMAIN machine.cond : machine.cond[j][1] = s.cmp}}

\* The lines of s are the ones generate emits for an If.
Laid(s) ==
    /\ Output[s.cmp] = Line("cmp rax, 0")
    /\ Output[s.je].text = "je {}"
    /\ Output[s.jmp].text = "jmp {}"
    /\ Output[s.else_label] = LineSym("{}:", Output[s.je].sym)
    /\ Output[s.end_label] = LineSym("{}:", Output[s.jmp].sym)
    /\ s.else_branch = <<>> => s.end_label = s.else_label + 1

\* Of the two branches of s only the one the condition selects has run.
OneBranch(s) ==
    \A v \in Compared(s) :
        IF v # W(0)
        THEN machine.executed \cap (s.else_label..(s.end_label - 1)) = {}
        ELSE machine.executed \cap ((s.je + 1)..s.jmp) = {}

\* The selected branch of s was gone through to the end label.
Continued(s) ==
    \A v \in Compared(s) :
        /\ s.end_label \in machine.executed
        /\ IF v # W(0) THEN s.jmp \in machine.executed
           ELSE s.else_label \in machine.executed

Terminated ==
    machine.status \in {"exited", "divide_error", "fault"}

=============================================================================
